---- MODULE Spec2Model ----
(***************************************************************************)
(* hey-apm, src/main.go: the orchestration layer.  Main registers for the  *)
(* interrupt signal, parses the flags and either delegates to the          *)
(* benchmark facade (with a context that the interrupt cancels) or runs    *)
(* `instances` worker tasks in an errgroup (with a stop channel that the   *)
(* interrupt closes).                                                      *)
(*                                                                         *)
(* The libraries main.go calls are modelled by their documented behaviour: *)
(*   errgroup   Go runs f in a goroutine; the first non-nil error is kept  *)
(*              (sync.Once) and cancels the group's context; Wait blocks   *)
(*              until every goroutine is done, cancels the context and     *)
(*              returns the kept error.                                    *)
(*   context    cancel() is idempotent.                                    *)
(*   close      closing a closed channel panics.                           *)
(*   os/signal  Notify delivers with a non-blocking send: a signal that    *)
(*              finds the channel's buffer full is dropped.                *)
(*   math/rand  Seed fixes the generator's state; Intn(n) panics for       *)
(*              n <= 0 and otherwise advances the state and returns a      *)
(*              value in [0, n) that is a function of the state alone.     *)
(*   time       Sleep(d) pauses the goroutine for at least d.              *)
(* worker.Run and benchmark.Run are external: they return at any moment    *)
(* with nil or with an error.                                              *)
(***************************************************************************)
EXTENDS Integers, Sequences, FiniteSets, TLC

\* ------------------------------------------------------------- bounds
MaxInstances == 2
MaxDelay == 2
MaxInterrupts == 2
MaxTime == 3
MaxSpan == 5

\* rand.Seed(1000) in init()
InitSeed == 1000

\* ------------------------------------------------------------- values
Nil == 0
\* the error worker.Run returns to task i: errors are told apart by task
Err(i) == i
BenchErr == 1

TaskIds == 1..(MaxInstances + 1)
Seeds == {0, 1, 2}
\* the -rd flag's text, as a sequence of characters
RdValues == { <<"7">>, <<"a", "b", "c">> }
\* more texts for -rd, and the values of -sm and -sx, for the runs that are
\* about parseFlags
RdFlagValues == RdValues \cup { << >>, <<"-", "3">>, <<"1", "x">> }
Spans == (0..MaxSpan) \cup {-1}
Digits == {"0", "1", "2", "3", "4", "5", "6", "7", "8", "9"}

NoInput == [set |-> FALSE]

VARIABLES
    args,       \* the command line: fixed at process start
    timed,      \* whether this run tracks the clock (else timers fire at any moment)
    pc,         \* Main's position: "parse", "parsed", "bench", "run", "done"
    panic,      \* the panic that ended the process: "none", "atoi", "intn", "close"
    input,      \* models.Input returned by parseFlags
    rng,        \* the shared generator: [state, seedings, draws]
    signalC,    \* number of signals buffered in signalC (capacity 1)
    intr,       \* interrupts delivered to the process so far
    bridge,     \* the interrupt goroutine: "none", "waiting", "received", "done"
    ctx,        \* benchmark mode's context: [st, closes]
    stopChan,   \* load mode's stop channel: [st, closes]
    group,      \* the errgroup: [st (its context), err, failed (order of recorded failures)]
    launched,   \* runWorkers' loop counter i
    tasks,      \* per task: [st, delay, sleepFrom, startedAt, out, calls, ctxSeen, stopSeen]
    bench,      \* the benchmark facade: [calls, out]
    result,     \* what Main returned
    now         \* the clock, in milliseconds since runWorkers was called

vars == <<args, timed, pc, panic, input, rng, signalC, intr, bridge, ctx, stopChan,
          group, launched, tasks, bench, result, now>>

\* ------------------------------------------------------------ helpers

\* strconv.Atoi succeeds on an optional sign followed by one or more digits
AtoiOkPrefix(s) == Len(s) > 0 /\ s[1] \in Digits \cup {"+", "-"}
AtoiOk(s) ==
    LET body == IF Len(s) > 0 /\ s[1] \in {"+", "-"} THEN Tail(s) ELSE s
    IN  Len(body) > 0 /\ \A k \in 1..Len(body) : body[k] \in Digits

\* the generator: a fixed permutation of its states, so that a seed and the
\* number of draws made determine every value
RngSeed(s) == s % 8
RngStep(x) == (5 * x + 3) % 8
IntnMayReturnBound(x, n) == RngStep(x) % (n + 1)
Intn(x, n) == RngStep(x) % n

\* rand.Seed(s): the generator starts over from s
SeedSkipped(g, s) == g
Seed(g, s) == [g EXCEPT !.state = RngSeed(s), !.seedings = @ + 1]

\* lines 122-124: a maximum below the minimum is raised to the minimum
NoClamp(sx, sm) == sx
ClampUp(sx, sm) == IF sx < sm THEN sm ELSE sx

\* context cancel(): idempotent
CancelTwice(c) == [c EXCEPT !.st = "cancelled", !.closes = @ + 1]
Cancel(c) ==
    IF c.st = "live" THEN [c EXCEPT !.st = "cancelled", !.closes = @ + 1] ELSE c

Alive == pc # "done" /\ panic = "none"

TaskInit == [st |-> "none", delay |-> 0, sleepFrom |-> 0, startedAt |-> 0,
             out |-> Nil, calls |-> 0, ctxSeen |-> FALSE, stopSeen |-> FALSE]

Started(i) == tasks[i].st \in {"running", "returned", "done"}
Launched(i) == tasks[i].st # "none"

\* --------------------------------------------------------------- Init

\* the command lines of the orchestration runs: nothing in Main or runWorkers
\* reads the span limits, which are left at one pair
ArgsSet == [bench : BOOLEAN, instances : 0..MaxInstances, delay : 0..MaxDelay,
            seed : Seeds, rd : RdValues, sm : {1}, sx : {MaxSpan}]

InitRest ==
    /\ pc = "parse"
    /\ panic = "none"
    /\ input = NoInput
    /\ rng = [state |-> RngSeed(InitSeed), seedings |-> 1, draws |-> 0]
    /\ signalC = 0
    /\ intr = 0
    /\ bridge = "none"
    /\ ctx = [st |-> "none", closes |-> 0]
    /\ stopChan = [st |-> "none", closes |-> 0]
    /\ group = [st |-> "none", err |-> Nil, failed |-> << >>]
    /\ launched = 0
    /\ tasks = [i \in TaskIds |-> TaskInit]
    /\ bench = [calls |-> 0, out |-> Nil]
    /\ result = Nil
    /\ now = 0

Init ==
    /\ args \in ArgsSet
    /\ timed = FALSE
    /\ InitRest

\* ------------------------------------------------------------ actions

\* line 35: signalC has room for one signal, so a signal is kept also while
\* nobody receives
DeliverUnbuffered == IF bridge = "waiting" THEN 1 ELSE 0
Deliver == 1

\* An interrupt reaches the process (signal.Notify, line 36): a non-blocking
\* send into signalC, dropped when the buffer is full.
Interrupt ==
    /\ Alive
    /\ intr < MaxInterrupts
    /\ intr' = intr + 1
    /\ signalC' = Deliver
    /\ UNCHANGED <<args, timed, pc, panic, input, rng, bridge, ctx, stopChan, group,
                   launched, tasks, bench, result, now>>

\* lines 85, 126: the seed parseFlags hands to rand.Seed is the -seed flag
FlagSeedIgnored == InitSeed
FlagSeed == args.seed

\* parseFlags (lines 81-163): clamps the span maximum, seeds the generator,
\* builds the Input, and in benchmark mode panics when -rd is not a number;
\* the payload limits are set in load-generation mode only.
ParseFlags ==
    /\ Alive
    /\ pc = "parse"
    /\ rng' = Seed(rng, FlagSeed)
    /\ IF args.bench /\ ~AtoiOk(args.rd)
       THEN /\ panic' = "atoi"
            /\ UNCHANGED <<pc, input>>
       ELSE /\ pc' = "parsed"
            /\ panic' = panic
            /\ input' = [set |-> TRUE, IsBenchmark |-> args.bench,
                         Instances |-> args.instances, DelayMillis |-> args.delay,
                         RegressionDays |-> IF args.bench THEN args.rd ELSE << >>,
                         SpanMinLimit |-> IF args.bench THEN 0 ELSE args.sm,
                         SpanMaxLimit |-> IF args.bench THEN 0
                                          ELSE ClampUp(args.sx, args.sm)]
    /\ UNCHANGED <<args, timed, signalC, intr, bridge, ctx, stopChan, group,
                   launched, tasks, bench, result, now>>

\* line 38: which of the two branches of Main runs
BenchmarkModeInverted == ~input.IsBenchmark
BenchmarkMode == input.IsBenchmark

\* Main, lines 38-49: the context, the interrupt goroutine, and the call of
\* benchmark.Run.
BenchStart ==
    /\ Alive
    /\ pc = "parsed"
    /\ BenchmarkMode
    /\ ctx' = [ctx EXCEPT !.st = "live"]
    /\ bridge' = "waiting"
    /\ bench' = [bench EXCEPT !.calls = @ + 1]
    /\ pc' = "bench"
    /\ UNCHANGED <<args, timed, panic, input, rng, signalC, intr, stopChan, group,
                   launched, tasks, result, now>>

\* lines 49-52: Main returns the error of benchmark.Run, or nil
BenchResultNil(e) == Nil
BenchResult(e) == IF e # Nil THEN e ELSE Nil

\* Main, lines 49-53 and the deferred cancel of line 40: benchmark.Run
\* returns and Main returns what it returned.
BenchReturn ==
    /\ Alive
    /\ pc = "bench"
    /\ \E e \in {Nil, BenchErr} :
          /\ bench' = [bench EXCEPT !.out = e]
          /\ result' = BenchResult(e)
    /\ ctx' = Cancel(ctx)
    /\ pc' = "done"
    /\ UNCHANGED <<args, timed, panic, input, rng, signalC, intr, bridge, stopChan,
                   group, launched, tasks, now>>

\* Main, lines 55-63, and runWorkers line 67: the stop channel, the
\* interrupt goroutine, and the errgroup with its context.
LoadStart ==
    /\ Alive
    /\ pc = "parsed"
    /\ ~BenchmarkMode
    /\ stopChan' = [stopChan EXCEPT !.st = "open"]
    /\ bridge' = "waiting"
    /\ group' = [group EXCEPT !.st = "live"]
    /\ launched' = 0
    /\ pc' = "run"
    /\ UNCHANGED <<args, timed, panic, input, rng, signalC, intr, ctx, tasks, bench,
                   result, now>>

\* the interrupt goroutine receives from signalC (lines 46, 60)
BridgeReceive ==
    /\ Alive
    /\ bridge = "waiting"
    /\ signalC > 0
    /\ signalC' = signalC - 1
    /\ bridge' = "received"
    /\ UNCHANGED <<args, timed, pc, panic, input, rng, intr, ctx, stopChan, group,
                   launched, tasks, bench, result, now>>

\* where the interrupt goroutine goes after it has acted: it returns
BridgeLoops == "waiting"
BridgeAfter == "done"

\* close(stopChan) (line 59): closing a closed channel panics
CloseStop ==
    IF stopChan.st = "closed"
    THEN /\ panic' = "close"
         /\ stopChan' = stopChan
    ELSE /\ panic' = panic
         /\ stopChan' = [stopChan EXCEPT !.st = "closed", !.closes = @ + 1]

\* line 45: the benchmark goroutine's deferred cancel()
NoDeferredCancel(c) == c
DeferredCancel(c) == Cancel(c)

\* the interrupt goroutine logs and returns; its deferred call runs:
\* cancel() in benchmark mode (line 45), close(stopChan) otherwise (line 59)
BridgeFire ==
    /\ Alive
    /\ bridge = "received"
    /\ bridge' = BridgeAfter
    /\ IF BenchmarkMode
       THEN /\ ctx' = DeferredCancel(ctx)
            /\ UNCHANGED <<stopChan, panic>>
       ELSE /\ CloseStop
            /\ ctx' = ctx
    /\ UNCHANGED <<args, timed, pc, input, rng, signalC, intr, group, launched,
                   tasks, bench, result, now>>

\* ---------------------------------------------------------- runWorkers

\* the loop condition of line 68
LoopCondInclusive(i) == i <= input.Instances
LoopCond(i) == i < input.Instances

\* g.Go (line 70): one more goroutine, which has yet to run
Launch ==
    /\ Alive
    /\ pc = "run"
    /\ LoopCond(launched)
    /\ launched' = launched + 1
    /\ tasks' = [tasks EXCEPT ![launched + 1].st = "spawned"]
    /\ UNCHANGED <<args, timed, pc, panic, input, rng, signalC, intr, bridge, ctx,
                   stopChan, group, bench, result, now>>

\* line 71-73: the task draws its delay and goes to sleep; rand.Intn panics
\* for a bound that is not positive, which ends the process
TaskDraw(i) ==
    /\ Alive
    /\ tasks[i].st = "spawned"
    /\ IF input.DelayMillis <= 0
       THEN /\ panic' = "intn"
            /\ UNCHANGED <<rng, tasks>>
       ELSE /\ panic' = panic
            /\ rng' = [rng EXCEPT !.state = RngStep(@), !.draws = @ + 1]
            /\ tasks' = [tasks EXCEPT ![i].st = "sleeping",
                                      ![i].delay = Intn(rng.state, input.DelayMillis),
                                      ![i].sleepFrom = now]
    /\ UNCHANGED <<args, timed, pc, input, signalC, intr, bridge, ctx, stopChan,
                   group, launched, bench, result, now>>

\* time.Sleep(randomDelay) is over: at least randomDelay has passed
SleepOverAtOnce(i) == TRUE
SleepOver(i) == timed => now >= tasks[i].sleepFrom + tasks[i].delay

\* line 74: the call of worker.Run is not guarded: the task looks at neither
\* the stop channel nor the context before it calls
CallsUnlessStopped(i) == stopChan.st # "closed"
CallsWorker(i) == TRUE

\* line 74: after its sleep the task calls worker.Run with the group's
\* context and the stop channel, whatever their state
TaskRun(i) ==
    /\ Alive
    /\ tasks[i].st = "sleeping"
    /\ SleepOver(i)
    /\ tasks' = IF CallsWorker(i)
                THEN [tasks EXCEPT ![i].st = "running",
                                   ![i].startedAt = now,
                                   ![i].calls = @ + 1,
                                   ![i].ctxSeen = (group.st = "cancelled"),
                                   ![i].stopSeen = (stopChan.st = "closed")]
                ELSE [tasks EXCEPT ![i].st = "returned"]
    /\ UNCHANGED <<args, timed, pc, panic, input, rng, signalC, intr, bridge, ctx,
                   stopChan, group, launched, bench, result, now>>

\* worker.Run returns, with nil or with an error
FacadeReturn(i) ==
    /\ Alive
    /\ tasks[i].st = "running"
    /\ \E e \in {Nil, Err(i)} :
          tasks' = [tasks EXCEPT ![i].st = "returned", ![i].out = e]
    /\ UNCHANGED <<args, timed, pc, panic, input, rng, signalC, intr, bridge, ctx,
                   stopChan, group, launched, bench, result, now>>

\* errgroup keeps the first error only (errOnce)
KeepLast(e) == e
Keep(e) == IF group.err = Nil THEN e ELSE group.err

\* the first error cancels the group's context
OnErrorLeaveContext(e) == group.st
OnError(e) == IF group.err = Nil THEN "cancelled" ELSE group.st

\* what becomes of a task whose function has returned: its goroutine ends
\* (wg.Done); errgroup never calls the function again
RetryOnError(i) == IF tasks[i].out # Nil THEN "sleeping" ELSE "done"
AfterReturn(i) == "done"

\* the goroutine of g.Go after f returned (line 75): a non-nil error is
\* offered to the group, then the goroutine is done
TaskFinish(i) ==
    /\ Alive
    /\ tasks[i].st = "returned"
    /\ tasks' = [tasks EXCEPT ![i].st = AfterReturn(i)]
    /\ IF tasks[i].out # Nil
       THEN group' = [group EXCEPT !.err = Keep(tasks[i].out),
                                   !.st = OnError(tasks[i].out),
                                   !.failed = Append(@, i)]
       ELSE group' = group
    /\ UNCHANGED <<args, timed, pc, panic, input, rng, signalC, intr, bridge, ctx,
                   stopChan, launched, bench, result, now>>

\* g.Wait blocks until every goroutine started with g.Go is done
WaitForFirstError ==
    \/ group.err # Nil
    \/ \A i \in TaskIds : tasks[i].st \in {"none", "done"}
WaitOver == \A i \in TaskIds : tasks[i].st \in {"none", "done"}

\* what g.Wait returns
WaitReturnsNil == Nil
WaitReturns == group.err

\* line 78 and line 63: the loop is over, g.Wait returns, and runWorkers and
\* Main return what it returned
Wait ==
    /\ Alive
    /\ pc = "run"
    /\ ~LoopCond(launched)
    /\ WaitOver
    /\ group' = [group EXCEPT !.st = "cancelled"]
    /\ result' = WaitReturns
    /\ pc' = "done"
    /\ UNCHANGED <<args, timed, panic, input, rng, signalC, intr, bridge, ctx,
                   stopChan, launched, tasks, bench, now>>

\* a millisecond of runWorkers' run passes
Tick ==
    /\ Alive
    /\ timed
    /\ pc = "run"
    /\ now < MaxTime
    /\ now' = now + 1
    /\ UNCHANGED <<args, timed, pc, panic, input, rng, signalC, intr, bridge, ctx,
                   stopChan, group, launched, tasks, bench, result>>

\* -------------------------------------------------------- specifications

Next ==
    \/ Interrupt
    \/ ParseFlags
    \/ BenchStart
    \/ BenchReturn
    \/ LoadStart
    \/ BridgeReceive
    \/ BridgeFire
    \/ Launch
    \/ \E i \in TaskIds : TaskDraw(i)
    \/ \E i \in TaskIds : TaskRun(i)
    \/ \E i \in TaskIds : FacadeReturn(i)
    \/ \E i \in TaskIds : TaskFinish(i)
    \/ Wait

Spec == Init /\ [][Next]_vars

\* The same program with the clock tracked: load-generation runs, without
\* interrupts, in which a sleep ends no earlier than its duration.  Each task
\* is timed on its own, so these runs have at most two of them.
InitTimed ==
    /\ args \in {a \in ArgsSet : ~a.bench /\ a.rd = <<"7">> /\ a.instances \in 0..2}
    /\ timed = TRUE
    /\ InitRest

NextTimed ==
    \/ ParseFlags
    \/ LoadStart
    \/ Launch
    \/ \E i \in TaskIds : TaskDraw(i)
    \/ \E i \in TaskIds : TaskRun(i)
    \/ \E i \in TaskIds : FacadeReturn(i)
    \/ \E i \in TaskIds : TaskFinish(i)
    \/ Wait
    \/ Tick

SpecTimed == InitTimed /\ [][NextTimed]_vars

\* The interrupt goroutine races with Main and with the tasks alike however
\* many tasks there are and however long they sleep; these runs have at most
\* two tasks and a delay bound of at most 1.
InitBridge ==
    /\ args \in {a \in ArgsSet : a.instances \in 0..2 /\ a.delay \in 0..1}
    /\ timed = FALSE
    /\ InitRest

\* Fair scheduling of Main up to its blocking call and of the interrupt
\* goroutine; worker.Run and benchmark.Run may run for ever.
SpecBridge ==
    /\ InitBridge
    /\ [][Next]_vars
    /\ WF_vars(ParseFlags)
    /\ WF_vars(BenchStart)
    /\ WF_vars(LoadStart)
    /\ WF_vars(BridgeReceive)
    /\ WF_vars(BridgeFire)

\* The runs that are about parseFlags: every text of -rd and every pair of
\* span limits, with at most one worker task and no interrupt.
FlagArgsSet == [bench : BOOLEAN, instances : 0..1, delay : {1}, seed : Seeds,
                rd : RdFlagValues, sm : Spans, sx : Spans]

InitFlags ==
    /\ args \in FlagArgsSet
    /\ timed = FALSE
    /\ InitRest

NextFlags ==
    \/ ParseFlags
    \/ BenchStart
    \/ BenchReturn
    \/ LoadStart
    \/ Launch
    \/ \E i \in TaskIds : TaskDraw(i)
    \/ \E i \in TaskIds : TaskRun(i)
    \/ \E i \in TaskIds : FacadeReturn(i)
    \/ \E i \in TaskIds : TaskFinish(i)
    \/ Wait

SpecFlags == InitFlags /\ [][NextFlags]_vars

\* ----------------------------------------------------------- properties

Mode == IF ~input.set THEN "none" ELSE IF input.IsBenchmark THEN "bench" ELSE "load"

\* runWorkers has returned
Returned == Mode = "load" /\ pc = "done"

LaunchedTasks == {i \in TaskIds : Launched(i)}
FailedTasks == {i \in TaskIds : tasks[i].out # Nil}

\* C1: when runWorkers returns, every task it launched has finished: its
\* sleep is over, its call of worker.Run was made and has returned, and its
\* goroutine is done, however many tasks failed and in whichever order.
C1_ReturnsAfterAllTasks ==
    Returned =>
        \A i \in LaunchedTasks : tasks[i].st = "done" /\ tasks[i].calls >= 1

\* two tasks failed, the second one first, and runWorkers returned
C1_Witness ==
    /\ Returned
    /\ Cardinality(LaunchedTasks) = 2
    /\ group.failed = <<2, 1>>

\* C2: when some task failed, runWorkers returns the error of the task whose
\* failure was recorded first, and a later failure never replaces it; with
\* exactly one failing task the result is that task's error.
C2_FirstErrorWins ==
    /\ Len(group.failed) > 0 => group.err = Err(group.failed[1])
    /\ Returned /\ FailedTasks # {} =>
          /\ Len(group.failed) > 0
          /\ result = Err(group.failed[1])
          /\ \A i \in TaskIds : FailedTasks = {i} => result = Err(i)

\* both tasks failed, task 2's failure was recorded first and is returned
C2_Witness ==
    /\ Returned
    /\ group.failed = <<2, 1>>
    /\ result = Err(2)

\* C3: runWorkers returns nil exactly when every task's outcome is nil.
C3_NilIffAllNil ==
    Returned => (result = Nil <=> \A i \in LaunchedTasks : tasks[i].out = Nil)

\* the stop channel was closed before the tasks were called, every task
\* returned nil and so did runWorkers
C3_Witness ==
    /\ Returned
    /\ result = Nil
    /\ Cardinality(LaunchedTasks) = 2
    /\ \A i \in LaunchedTasks : tasks[i].stopSeen /\ tasks[i].out = Nil

\* C4: in load-generation mode the group's context is cancelled as soon as
\* the first failure is recorded, while runWorkers is still waiting, so a
\* task called with a cancelled context was called after a failure; and
\* while no task has failed and a task is unfinished the context is live.
C4_CancelOnFirstError ==
    Mode = "load" /\ pc \in {"run", "done"} =>
        /\ group.err # Nil => group.st = "cancelled"
        /\ \A i \in TaskIds : tasks[i].ctxSeen => group.err # Nil
        /\ (FailedTasks = {} /\ \E i \in LaunchedTasks : tasks[i].st # "done")
              => group.st = "live"

\* runWorkers is waiting, a failure was recorded, and a sibling called after
\* it runs with the cancelled context
C4_Witness ==
    /\ Mode = "load"
    /\ pc = "run"
    /\ group.err # Nil
    /\ \E i \in TaskIds : tasks[i].st = "running" /\ tasks[i].ctxSeen

\* C5: with instances >= 1 and a positive delay bound, runWorkers launches
\* exactly `instances` tasks, each calls worker.Run exactly once, after it
\* drew its delay, and never again, also not after a failure.
C5_EachTaskRunsOnce ==
    Mode = "load" /\ input.Instances >= 1 /\ input.DelayMillis > 0 =>
        /\ LaunchedTasks = 1..launched
        /\ launched <= input.Instances
        /\ rng.draws = Cardinality({i \in TaskIds :
                                      tasks[i].st \notin {"none", "spawned"}})
        /\ \A i \in TaskIds : tasks[i].calls = (IF Started(i) THEN 1 ELSE 0)
        /\ pc = "done" =>
              /\ launched = input.Instances
              /\ \A i \in LaunchedTasks : tasks[i].calls = 1

\* a task slept while a sibling failed and the interrupt closed the stop
\* channel; it still made its one call, and runWorkers returned
C5_Witness ==
    /\ Returned
    /\ \E i \in TaskIds :
          tasks[i].ctxSeen /\ tasks[i].stopSeen /\ tasks[i].calls = 1

\* C6: with instances = 0 no task is launched, no delay is drawn, worker.Run
\* is never called, g.Wait has nothing to wait for, and runWorkers returns
\* nil, with or without an interrupt.
C6_NoInstances ==
    Mode = "load" /\ input.Instances = 0 =>
        /\ LaunchedTasks = {}
        /\ launched = 0
        /\ rng.draws = 0
        /\ \A i \in TaskIds : tasks[i].calls = 0
        /\ pc = "run" /\ panic = "none" => ENABLED Wait
        /\ pc = "done" => result = Nil

\* runWorkers returned nil for zero instances after an interrupt
C6_Witness ==
    /\ Returned
    /\ input.Instances = 0
    /\ intr > 0
    /\ bridge = "done"
    /\ result = Nil

Drawn(i) == tasks[i].st \in {"sleeping", "running", "returned", "done"}

\* C7, as the spec states it: every call of worker.Run begins within
\* [0, DelayMillis) of the start.
C7_StartsWithinBound ==
    Mode = "load" /\ input.DelayMillis > 0 =>
        \A i \in TaskIds :
            /\ Drawn(i) => 0 <= tasks[i].delay /\ tasks[i].delay < input.DelayMillis
            /\ Started(i) => 0 <= tasks[i].startedAt
                             /\ tasks[i].startedAt < input.DelayMillis

\* C7, amended: the delay a task draws is a d with 0 <= d < DelayMillis, and
\* the task calls worker.Run no earlier than d after it went to sleep, hence
\* no earlier than d after the start and never before time 0; how much later
\* the call begins is not bounded.
C7_StartsAfterDelay ==
    Mode = "load" /\ input.DelayMillis > 0 =>
        \A i \in TaskIds :
            /\ Drawn(i) => /\ 0 <= tasks[i].delay
                           /\ tasks[i].delay < input.DelayMillis
                           /\ 0 <= tasks[i].sleepFrom
            /\ Started(i) => /\ tasks[i].startedAt >= tasks[i].sleepFrom + tasks[i].delay
                             /\ tasks[i].startedAt >= tasks[i].delay
                             /\ tasks[i].startedAt >= 0

\* a task drew the largest delay the bound allows, slept from a moment after
\* the start and began its call the moment the delay had passed
C7_Witness ==
    /\ Mode = "load"
    /\ \E i \in TaskIds :
          /\ Started(i)
          /\ tasks[i].delay > 0
          /\ tasks[i].delay = input.DelayMillis - 1
          /\ tasks[i].sleepFrom > 0
          /\ tasks[i].startedAt = tasks[i].sleepFrom + tasks[i].delay

\* C8: in benchmark mode the interrupt goroutine, once it has received the
\* first interrupt and returned, has cancelled the context that was handed to
\* benchmark.Run; the context is cancelled once: a further interrupt and the
\* deferred cancel of Main's return change nothing and raise no panic.
C8_BenchmarkCancelOnce ==
    Mode = "bench" =>
        /\ panic = "none"
        /\ bridge = "done" => ctx.st = "cancelled"
        /\ pc = "done" => ctx.st = "cancelled"
        /\ ctx.st = "cancelled" => bridge = "done" \/ pc = "done"
        /\ ctx.closes = (IF ctx.st = "cancelled" THEN 1 ELSE 0)
        /\ stopChan.closes = 0

\* two interrupts were delivered, the goroutine cancelled the context, and
\* Main returned, cancelling again
C8_Witness ==
    /\ Mode = "bench"
    /\ pc = "done"
    /\ bridge = "done"
    /\ intr = 2
    /\ signalC = 1
    /\ ctx.closes = 1

\* C9: in load-generation mode the interrupt goroutine, once it has received
\* the first interrupt and returned, has closed the stop channel every task
\* was given; the channel is closed once: a later interrupt is not received
\* by anyone, closes nothing and raises no panic.
C9_StopClosedOnce ==
    Mode = "load" =>
        /\ panic # "close"
        /\ stopChan.closes <= 1
        /\ stopChan.closes = (IF stopChan.st = "closed" THEN 1 ELSE 0)
        /\ stopChan.st = "closed" <=> bridge = "done"
        /\ \A i \in TaskIds : tasks[i].stopSeen => stopChan.st = "closed"
        /\ bridge = "done" /\ intr = 1 => signalC = 0

\* the stop channel is closed, a second interrupt sits in signalC, and a task
\* called after the close runs
C9_Witness ==
    /\ Mode = "load"
    /\ stopChan.st = "closed"
    /\ intr = 2
    /\ signalC = 1
    /\ \E i \in TaskIds : tasks[i].st = "running" /\ tasks[i].stopSeen

\* C10: one discipline per run.  In benchmark mode there is no stop channel,
\* no errgroup and no worker task.  In load-generation mode there is no
\* benchmark context and no benchmark call, and the group's context is
\* cancelled only by a task's failure or by runWorkers returning, never by
\* the interrupt.
C10_OneDiscipline ==
    /\ Mode = "bench" =>
          /\ stopChan.st = "none"
          /\ group.st = "none"
          /\ launched = 0
          /\ \A i \in TaskIds : tasks[i].st = "none" /\ tasks[i].calls = 0
    /\ Mode = "load" =>
          /\ ctx.st = "none"
          /\ bench.calls = 0
          /\ group.st = "cancelled" => group.err # Nil \/ pc = "done"

\* the interrupt closed the stop channel while tasks run, and the group's
\* context is live
C10_Witness ==
    /\ Mode = "load"
    /\ pc = "run"
    /\ bridge = "done"
    /\ stopChan.st = "closed"
    /\ group.st = "live"
    /\ \E i \in TaskIds : tasks[i].st = "running"

\* C11, as the spec states it: in benchmark mode a run whose context the
\* interrupt goroutine cancelled while benchmark.Run was running is not
\* reported as a success: Main does not return nil for it.
C11_InterruptedNotSuccess ==
    Mode = "bench" /\ pc = "done" /\ bridge = "done" => result # Nil

\* C11, amended: an interrupt received while benchmark.Run runs cancels the
\* context benchmark.Run was given, and Main returns what benchmark.Run
\* returns after that: its error when it reports one, nil when it returns nil.
C11_InterruptedReturnsFacadeResult ==
    Mode = "bench" /\ bridge \in {"received", "done"} =>
        /\ bench.calls = 1
        /\ bridge = "done" => ctx.st = "cancelled"
        /\ pc = "done" => result = bench.out

\* the interrupt cancelled the context, benchmark.Run returned an error, and
\* Main returned it
C11_Witness ==
    /\ Mode = "bench"
    /\ pc = "done"
    /\ bridge = "done"
    /\ bench.out = BenchErr
    /\ result = BenchErr

\* C12, as the spec states it: a task that had not yet called worker.Run when
\* the stop channel was closed does not call it afterwards.
C12_NoCallAfterStop ==
    Mode = "load" => \A i \in TaskIds : Started(i) => ~tasks[i].stopSeen

\* C12, amended: a task whose sleep was not over when the stop channel was
\* closed still makes its one call of worker.Run, with the closed channel; no
\* task's function returns without that call, and none calls twice.
C12_CallsWithClosedStop ==
    Mode = "load" =>
        \A i \in TaskIds :
            /\ tasks[i].stopSeen => stopChan.st = "closed" /\ Started(i)
            /\ tasks[i].st \in {"returned", "done"} => tasks[i].calls = 1
            /\ tasks[i].st = "running" => tasks[i].calls = 1
            /\ (pc = "done" /\ stopChan.st = "closed" /\ Launched(i))
                  => tasks[i].calls = 1

\* the stop channel was closed while every task slept; each of them still
\* called worker.Run, and runWorkers returned
C12_Witness ==
    /\ Returned
    /\ launched = 2
    /\ \A i \in LaunchedTasks :
          tasks[i].stopSeen /\ ~tasks[i].ctxSeen /\ tasks[i].calls = 1

\* the texts of -rd that are not numbers
NonNumeric == { <<"a", "b", "c">>, << >>, <<"1", "x">> }

\* parseFlags has run (it is the second to seed the generator)
Parsed == rng.seedings >= 2

\* C13: in benchmark mode a -rd that is not a number makes parseFlags panic:
\* no Input is returned, benchmark.Run is not called and no task is launched;
\* in load-generation mode no -rd makes parseFlags panic, and the run goes on.
C13_NonNumericLookback ==
    /\ args.bench /\ args.rd \in NonNumeric =>
          /\ pc = "parse"
          /\ ~input.set
          /\ bench.calls = 0
          /\ launched = 0
          /\ \A i \in TaskIds : tasks[i].st = "none"
          /\ Parsed => panic = "atoi"
    /\ panic = "atoi" => args.bench /\ args.rd \in NonNumeric
    /\ ~args.bench /\ Parsed => Mode = "load" /\ pc \in {"parsed", "run", "done"}

\* parseFlags panicked on "abc" in benchmark mode
C13_Witness ==
    /\ args.bench
    /\ args.rd = <<"a", "b", "c">>
    /\ panic = "atoi"

MaxOf(a, b) == IF a >= b THEN a ELSE b

\* C14: whatever the pair of span limits, parseFlags does not fail because of
\* it and returns an Input with SpanMaxLimit >= SpanMinLimit; in
\* load-generation mode SpanMinLimit is the given minimum and SpanMaxLimit the
\* larger of the given maximum and the given minimum.
C14_SpanClamp ==
    /\ Parsed /\ ~(args.bench /\ args.rd \in NonNumeric) => input.set /\ panic # "atoi"
    /\ input.set =>
          /\ input.SpanMaxLimit >= input.SpanMinLimit
          /\ ~input.IsBenchmark =>
                /\ input.SpanMinLimit = args.sm
                /\ input.SpanMaxLimit = MaxOf(args.sx, args.sm)

\* minimum 5 and maximum 2 were given, and the Input has maximum 5
C14_Witness ==
    /\ Mode = "load"
    /\ args.sm = 5
    /\ args.sx = 2
    /\ input.SpanMinLimit = 5
    /\ input.SpanMaxLimit = 5

\* the generator's state k draws after rand.Seed(seed), and the k-th value
\* rand.Intn(n) returns after it
RECURSIVE StateAfter(_, _)
StateAfter(x, k) == IF k = 0 THEN x ELSE StateAfter(RngStep(x), k - 1)
JitterAt(seed, k, n) == Intn(StateAfter(RngSeed(seed), k - 1), n)

C16_BenchmarkDelegates ==
    Mode = "bench" =>
        /\ bench.calls = (IF pc \in {"bench", "done"} THEN 1 ELSE 0)
        /\ pc = "bench" => ctx.st \in {"live", "cancelled"} /\ bridge # "none"
        /\ pc = "done" => result = bench.out
        /\ rng.draws = 0
        /\ launched = 0
        /\ \A i \in TaskIds : tasks[i].st = "none" /\ tasks[i].calls = 0

\* with -instances 2 and no interrupt, benchmark.Run returned an error and
\* Main returned it
C16_Witness ==
    /\ Mode = "bench"
    /\ input.Instances = 2
    /\ pc = "done"
    /\ intr = 0
    /\ bench.calls = 1
    /\ bench.out = BenchErr
    /\ result = BenchErr

\* C17: with a delay bound of 0 the tasks draw without a panic.
C17_ZeroDelayAccepted ==
    Mode = "load" /\ input.DelayMillis = 0 => panic = "none"

\* C18, as the spec states it: the generator is seeded once per run, with the
\* configured seed, before any draw.
C18_SeededOnce ==
    /\ rng.seedings <= 1
    /\ rng.draws > 0 => rng.seedings = 1

\* C18, amended: the generator is seeded twice per run, by init with 1000 and
\* then by parseFlags with the configured seed; both seedings come before any
\* draw, the first draw finds the generator as the configured seed left it,
\* and nothing seeds after parseFlags.
C18_SeededTwice ==
    /\ pc = "parse" /\ panic = "none" =>
          /\ rng.seedings = 1
          /\ rng.draws = 0
    /\ pc # "parse" \/ panic # "none" => rng.seedings = 2
    /\ rng.seedings = 2 /\ rng.draws = 0 => rng.state = RngSeed(args.seed)
    /\ rng.draws > 0 => rng.seedings = 2

\* a task drew after both seedings, with a seed that is not init's
C18_Witness ==
    /\ rng.seedings = 2
    /\ rng.draws = 1
    /\ RngSeed(args.seed) # RngSeed(InitSeed)
    /\ \E i \in TaskIds :
          Drawn(i) /\ tasks[i].delay = Intn(RngSeed(args.seed), input.DelayMillis)

\* the signal of the mode in use has been given
Fired ==
    \/ Mode = "load" /\ stopChan.st = "closed"
    \/ Mode = "bench" /\ ctx.st = "cancelled"

BridgeInPlace ==
    (bench.calls > 0 \/ \E i \in TaskIds : Launched(i)) => bridge # "none"

\* C19, as the spec states it: the interrupt goroutine exists before
\* benchmark.Run is called or a task is launched, and an interrupt delivered
\* at any moment after signal.Notify leads to the mode's signal.
C19_InterruptNeverLost ==
    /\ []BridgeInPlace
    /\ (intr > 0) ~> Fired

\* C19, amended: the same, unless the process ends first: Main returns or a
\* panic ends the process before the interrupt goroutine has acted.
C19_InterruptFiresUnlessEnded ==
    /\ []BridgeInPlace
    /\ (intr > 0) ~> (Fired \/ ~Alive)

\* one interrupt, delivered before any task was launched, and the stop
\* channel is closed while runWorkers still launches
C19_Witness ==
    /\ Mode = "load"
    /\ pc = "run"
    /\ panic = "none"
    /\ intr = 1
    /\ launched = 0
    /\ input.Instances > 0
    /\ stopChan.st = "closed"

\* Fair scheduling of Main, of the interrupt goroutine and of every task, with
\* every call of worker.Run returning.
SpecWorkers ==
    /\ Init
    /\ [][Next]_vars
    /\ WF_vars(ParseFlags)
    /\ WF_vars(BenchStart)
    /\ WF_vars(LoadStart)
    /\ WF_vars(BridgeReceive)
    /\ WF_vars(BridgeFire)
    /\ WF_vars(Launch)
    /\ WF_vars(Wait)
    /\ \A i \in TaskIds :
          /\ WF_vars(TaskDraw(i))
          /\ WF_vars(TaskRun(i))
          /\ WF_vars(FacadeReturn(i))
          /\ WF_vars(TaskFinish(i))

\* every launched task has finished and runWorkers has returned
RunWorkersReturned ==
    /\ pc = "done"
    /\ panic = "none"
    /\ \A i \in TaskIds : Launched(i) => tasks[i].st = "done"

\* C20: runWorkers terminates when worker.Run does: once runWorkers is
\* entered, every task eventually finishes and runWorkers eventually returns,
\* for every number of instances, every outcome of the tasks and with or
\* without interrupts.
C20_RunWorkersTerminates ==
    (Mode = "load" /\ pc = "run") ~> RunWorkersReturned

====
